---- MODULE Spec2Model ----
(***************************************************************************)
(* Model of tf_pwa/data.py: the nested-data ("tree") engine.               *)
(*                                                                         *)
(* A tree is a dict, a list, a tuple or a leaf (an ndarray).  One          *)
(* behaviour of the model is one use of the engine on an input tree:       *)
(*   data_split + successive next() on the generator + data_merge of the   *)
(*   collected batches, or one call of data_merge, data_map,               *)
(*   flatten_dict_data or data_index.                                      *)
(***************************************************************************)
EXTENDS Integers, Sequences, FiniteSets, TLC

VARIABLES
    tree,       \* the input tree of the call
    op,         \* "idle" | "split" | "roundtrip" | "merge" | "map" | "flatten" | "index"
    params,     \* the other arguments of the call
    gen,        \* the generator object returned by data_split (cursor state)
    genStatus,  \* "none" | "open" | "stop" | "raise"
    genErr,     \* the exception a next() raised
    batches,    \* the sub-trees pulled from the generator so far
    result      \* the value returned (or the exception raised) by the call

vars == <<tree, op, params, gen, genStatus, genErr, batches, result>>

----------------------------------------------------------------------------
(* Bounds of the model *)

\* largest batch-axis extent of a leaf; leaves have MaxRows-1 or MaxRows rows
MaxRows == 3
\* extent of the last axis of every leaf
MaxCols == 2
\* batch_size ranges over 1..MaxBatch
MaxBatch == 3
\* data_merge is called with 1..MaxMerge trees
MaxMerge == 3

----------------------------------------------------------------------------
(* Python values *)

None == [kind |-> "none"]

Error(e) == [kind |-> "error", err |-> e]

IsError(v) == v.kind = "error"

\* ndarray of rank 2 as its rows; arr[i][j]
Arr(r, c, tag) == [i \in 1..r |-> [j \in 1..c |-> 100 * tag + 10 * i + j]]

Leaf(rank, arr) == [kind |-> "leaf", rank |-> rank, arr |-> arr]

Dict(items) == [kind |-> "dict", items |-> items]

List(items) == [kind |-> "list", items |-> items]

Tuple(items) == [kind |-> "tuple", items |-> items]

\* keys: str, int, or an object with a string form (e.g. a particle)
StrKey(s) == [ty |-> "str", s |-> s]

IntKey(n) == [ty |-> "int", n |-> n]

ObjKey(s) == [ty |-> "obj", s |-> s]

Item(k, v) == [k |-> k, v |-> v]

IsContainer(t) == t.kind \in {"dict", "list", "tuple"}

\* isinstance(x, dict) etc.
isinstance(t, kinds) == t.kind \in kinds

Min(S) == CHOOSE x \in S : \A y \in S : x <= y

\* str(int) for the integers the model uses
IntStr(n) ==
    CASE n = 0 -> "0" [] n = 1 -> "1" [] n = 2 -> "2" [] n = 3 -> "3"
      [] n = -1 -> "-1" [] n = -2 -> "-2" [] n = -3 -> "-3"
      [] OTHER -> "n"

\* str(key)
str(k) == IF k.ty = "int" THEN IntStr(k.n) ELSE k.s

\* list(d) / d.keys(), in insertion order
Keys(d) == [i \in 1..Len(d.items) |-> d.items[i].k]

KeySet(d) == {d.items[i].k : i \in 1..Len(d.items)}

\* d[k] for k in d
DictGet(d, k) == d.items[CHOOSE i \in 1..Len(d.items) : d.items[i].k = k].v

\* ret[k] = v : overwrite in place, or insert at the end
DictSet(items, k, v) ==
    IF \E i \in 1..Len(items) : items[i].k = k
    THEN [i \in 1..Len(items) |-> IF items[i].k = k THEN Item(k, v) ELSE items[i]]
    ELSE Append(items, Item(k, v))

----------------------------------------------------------------------------
(* ndarray primitives used by the engine *)

\* dat.shape
Shape(leaf) ==
    IF leaf.rank = 2 THEN <<Len(leaf.arr), Len(leaf.arr[1])>>
    ELSE IF leaf.rank = 1 THEN <<Len(leaf.arr)>>
    ELSE <<>>

\* whether shape[axis] exists (Python indexing of a tuple, negatives from the back)
AxisValid(leaf, axis) == axis >= -leaf.rank /\ axis < leaf.rank

\* dat.shape[axis]
ShapeAt(leaf, axis) ==
    IF axis >= 0 THEN Shape(leaf)[axis + 1] ELSE Shape(leaf)[leaf.rank + axis + 1]

\* dat[i:j]  (0-based, j exclusive)
SliceRows(leaf, i, j) == Leaf(leaf.rank, SubSeq(leaf.arr, i + 1, j))

\* mutant of SliceCols: the ellipsis forgotten, dat[i:j]
SliceCols_rows(leaf, i, j) == SliceRows(leaf, i, j)

\* dat[..., i:j]
SliceCols(leaf, i, j) ==
    IF leaf.rank = 1 THEN Leaf(1, SubSeq(leaf.arr, i + 1, j))
    ELSE Leaf(2, [r \in 1..Len(leaf.arr) |-> SubSeq(leaf.arr[r], i + 1, j)])

----------------------------------------------------------------------------
(* _data_split and data_generator: the generator objects and one next() *)

Yield(v) == [st |-> "yield", v |-> v]

Stop == [st |-> "stop"]

Raise(e) == [st |-> "raise", err |-> e]

\* the generator object _gen(dat), not yet started; the generators of the
\* children are those the first next() creates (creating one runs no code)
RECURSIVE NewGen(_)
NewGen(dat) ==
    IF isinstance(dat, {"dict"})
    THEN [kind |-> "dictgen", st |-> "new", ks |-> Keys(dat),
          vs |-> [i \in 1..Len(dat.items) |-> NewGen(dat.items[i].v)]]
    ELSE IF isinstance(dat, {"list"})
    THEN [kind |-> "listgen", st |-> "new",
          vs |-> [i \in 1..Len(dat.items) |-> NewGen(dat.items[i])]]
    ELSE IF isinstance(dat, {"tuple"})
    THEN [kind |-> "tuplegen", st |-> "new",
          vs |-> [i \in 1..Len(dat.items) |-> NewGen(dat.items[i])]]
    ELSE [kind |-> "leafgen", st |-> "new", dat |-> dat, i |-> 0]

\* mutant of BatchSlice: the slice is not closed, dat[i:]
BatchSlice_toEnd(dat, i, batch_size, data_size, axis) ==
    IF axis = 0 THEN SliceRows(dat, i, data_size) ELSE SliceCols(dat, i, data_size)

\* one slice of the leaf: dat[i:min(i + batch_size, data_size)] on the rows
\* (axis 0) or on the last axis (axis -1)
BatchSlice(dat, i, batch_size, data_size, axis) ==
    LET j == IF i + batch_size < data_size THEN i + batch_size ELSE data_size
    IN  IF axis = 0 THEN SliceRows(dat, i, j) ELSE SliceCols(dat, i, j)

\* mutant of data_split_next: "else" in place of "elif axis == -1", so that
\* every other axis is sliced like the last one
data_split_next_anyAxis(g, batch_size, axis) ==
    IF g.st = "done" THEN [g |-> g, out |-> Stop]
    ELSE IF ~AxisValid(g.dat, axis)
    THEN [g |-> [g EXCEPT !.st = "done"], out |-> Raise("IndexError")]
    ELSE LET data_size == ShapeAt(g.dat, axis)
         IN  IF g.i < data_size
             THEN [g |-> [g EXCEPT !.st = "run", !.i = g.i + batch_size],
                   out |-> Yield(BatchSlice(g.dat, g.i, batch_size, data_size, axis))]
             ELSE [g |-> [g EXCEPT !.st = "done"], out |-> Stop]

\* one next() on the generator _data_split(dat, batch_size, axis)
data_split_next(g, batch_size, axis) ==
    IF g.st = "done" THEN [g |-> g, out |-> Stop]
    ELSE IF ~AxisValid(g.dat, axis)
    THEN [g |-> [g EXCEPT !.st = "done"], out |-> Raise("IndexError")]
    ELSE IF axis # 0 /\ axis # -1
    THEN [g |-> [g EXCEPT !.st = "done"], out |-> Raise("Exception: unsupported axis")]
    ELSE LET data_size == ShapeAt(g.dat, axis)
         IN  IF g.i < data_size
             THEN [g |-> [g EXCEPT !.st = "run", !.i = g.i + batch_size],
                   out |-> Yield(BatchSlice(g.dat, g.i, batch_size, data_size, axis))]
             ELSE [g |-> [g EXCEPT !.st = "done"], out |-> Stop]

\* one step of zip(*vs) given the result rs[j] of next() on each child: the
\* children are advanced left to right up to and including the first one
\* that stops or raises; zip() of no iterator stops at once
ZipNext(vs, rs) ==
    LET bad == {j \in 1..Len(vs) : rs[j].out.st # "yield"}
        f   == IF bad = {} THEN 0 ELSE Min(bad)
    IN  [vs  |-> [j \in 1..Len(vs) |-> IF f = 0 \/ j <= f THEN rs[j].g ELSE vs[j]],
         out |-> IF Len(vs) = 0 THEN Stop
                 ELSE IF f = 0 THEN Yield([j \in 1..Len(vs) |-> rs[j].out.v])
                 ELSE rs[f].out]

\* one next() on the generator _gen(dat) of data_generator
RECURSIVE gen_next(_, _, _)
gen_next(g, batch_size, axis) ==
    IF g.kind = "leafgen" THEN data_split_next(g, batch_size, axis)
    ELSE IF g.st = "done" THEN [g |-> g, out |-> Stop]
    ELSE
        LET rs == [j \in 1..Len(g.vs) |-> gen_next(g.vs[j], batch_size, axis)]
            z  == ZipNext(g.vs, rs)
            g2 == [g EXCEPT !.vs = z.vs,
                            !.st = IF z.out.st = "yield" THEN "run" ELSE "done"]
        IN  IF z.out.st # "yield" THEN [g |-> g2, out |-> z.out]
            ELSE IF g.kind = "dictgen"
            THEN [g |-> g2,
                  out |-> Yield(Dict([j \in 1..Len(g.ks) |-> Item(g.ks[j], z.out.v[j])]))]
            ELSE IF g.kind = "listgen"
            THEN [g |-> g2, out |-> Yield(List(z.out.v))]
            ELSE [g |-> g2, out |-> Yield(Tuple(z.out.v))]

----------------------------------------------------------------------------
(* tf.concat, the delegated leaf operation *)

RECURSIVE ConcatSeqs(_)
ConcatSeqs(ss) == IF Len(ss) = 0 THEN <<>> ELSE Head(ss) \o ConcatSeqs(Tail(ss))

\* tf.concat(data, axis) on ndarrays.  Every leaf of the model has rank 2 (or
\* rank 1 after integer indexing); a dict cannot be converted to a tensor and a
\* list or tuple of such leaves converts to a tensor of another rank, so a
\* container among the values makes the delegated operation fail.
tf_concat(data, axis) ==
    IF \E n \in 1..Len(data) : ~isinstance(data[n], {"leaf"})
    THEN Error("LeafOperationError")
    ELSE IF \E n \in 1..Len(data) : data[n].rank # data[1].rank \/ data[n].rank = 0
    THEN Error("LeafOperationError")
    ELSE IF ~AxisValid(data[1], axis) THEN Error("LeafOperationError")
    ELSE LET rank == data[1].rank
             ax   == IF axis >= 0 THEN axis ELSE rank + axis
         IN  IF ax = 0
             THEN IF rank = 2 /\ \E n \in 1..Len(data) : ShapeAt(data[n], 1) # ShapeAt(data[1], 1)
                  THEN Error("LeafOperationError")
                  ELSE Leaf(rank, ConcatSeqs([n \in 1..Len(data) |-> data[n].arr]))
             ELSE IF \E n \in 1..Len(data) : ShapeAt(data[n], 0) # ShapeAt(data[1], 0)
                  THEN Error("LeafOperationError")
                  ELSE Leaf(rank, [r \in 1..Len(data[1].arr) |->
                                      ConcatSeqs([n \in 1..Len(data) |-> data[n].arr[r]])])

----------------------------------------------------------------------------
(* data_merge *)

\* the default of the keyword argument axis
DefaultAxis == 0

\* the first exception raised while building a sequence of values, if any
FirstError(vals) ==
    LET bad == {j \in 1..Len(vals) : IsError(vals[j])}
    IN  IF bad = {} THEN None ELSE vals[Min(bad)]

\* data_i[i]
DictItem(d, k) == IF k \in KeySet(d) THEN DictGet(d, k) ELSE Error("KeyError")

\* mutant of MergeKeys: the keys of the first input
MergeKeys_first(data) == KeySet(data[1])

\* idx = set.intersection(*all_idx)
MergeKeys(data) == {k \in KeySet(data[1]) : \A n \in 1..Len(data) : k \in KeySet(data[n])}

\* [data_i[i] for data_i in data]
DictChildren(data, k) == [n \in 1..Len(data) |-> DictItem(data[n], k)]

\* zip(*data): the tuples of j-th elements, as many as the shortest input has
ZipItems(data) ==
    LET m == Min({Len(data[n].items) : n \in 1..Len(data)})
    IN  [j \in 1..m |-> [n \in 1..Len(data) |-> data[n].items[j]]]

\* data_merge(*data, axis=axis).  ord is the iteration order of the set idx
\* (a property of the interpreter's hashing, not of the program): the keys of
\* the universe in the order a set yields them.
RECURSIVE data_merge(_, _, _)
data_merge(data, axis, ord) ==
    IF Len(data) = 0 THEN Error("IndexError")
    ELSE IF isinstance(data[1], {"dict"})
    THEN IF ~(\A n \in 1..Len(data) : isinstance(data[n], {"dict"}))
         THEN Error("AssertionError: not all type same")
         ELSE LET idx  == SelectSeq(ord, LAMBDA k : k \in MergeKeys(data))
                  args == [j \in 1..Len(idx) |-> DictChildren(data, idx[j])]
                  vals == [j \in 1..Len(idx) |->
                              IF FirstError(args[j]) # None THEN FirstError(args[j])
                              ELSE data_merge(args[j], DefaultAxis, ord)]
              IN  IF FirstError(vals) # None THEN FirstError(vals)
                  ELSE Dict([j \in 1..Len(idx) |-> Item(idx[j], vals[j])])
    ELSE IF isinstance(data[1], {"list"})
    THEN IF ~(\A n \in 1..Len(data) : isinstance(data[n], {"list"}))
         THEN Error("AssertionError: not all type same")
         ELSE LET zs   == ZipItems(data)
                  vals == [j \in 1..Len(zs) |-> data_merge(zs[j], DefaultAxis, ord)]
              IN  IF FirstError(vals) # None THEN FirstError(vals) ELSE List(vals)
    ELSE IF isinstance(data[1], {"tuple"})
    THEN IF ~(\A n \in 1..Len(data) : isinstance(data[n], {"tuple"}))
         THEN Error("AssertionError: not all type same")
         ELSE LET zs   == ZipItems(data)
                  vals == [j \in 1..Len(zs) |-> data_merge(zs[j], DefaultAxis, ord)]
              IN  IF FirstError(vals) # None THEN FirstError(vals) ELSE Tuple(vals)
    ELSE tf_concat(data, axis)

----------------------------------------------------------------------------
(* data_map *)

\* fun(data, *args): the leaf functions the model applies
\*   "identity": lambda x: x         "add": lambda x, c: x + c
\*   "shape":    lambda x: x.shape   (a value that is no array)
ApplyFun(fun, leaf, args) ==
    IF fun = "identity" THEN leaf
    ELSE IF fun = "add"
    THEN Leaf(leaf.rank, [r \in 1..Len(leaf.arr) |->
                             [c \in 1..Len(leaf.arr[r]) |-> leaf.arr[r][c] + args[1]]])
    ELSE [kind |-> "value", v |-> Shape(leaf)]

RECURSIVE data_map(_, _, _)
\* mutant of data_map: the tuple branch returns the list it built
data_map_tupleAsList(data, fun, args) ==
    IF isinstance(data, {"dict"})
    THEN LET rs == [i \in 1..Len(data.items) |-> data_map(data.items[i].v, fun, args)]
         IN  [val   |-> Dict([i \in 1..Len(rs) |-> Item(data.items[i].k, rs[i].val)]),
              calls |-> ConcatSeqs([i \in 1..Len(rs) |-> rs[i].calls])]
    ELSE IF isinstance(data, {"list", "tuple"})
    THEN LET rs == [i \in 1..Len(data.items) |-> data_map(data.items[i], fun, args)]
         IN  [val   |-> List([i \in 1..Len(rs) |-> rs[i].val]),
              calls |-> ConcatSeqs([i \in 1..Len(rs) |-> rs[i].calls])]
    ELSE [val |-> ApplyFun(fun, data, args), calls |-> <<data>>]

\* data_map(data, fun, args): val is the value returned, calls the arguments
\* fun was called with, in call order
data_map(data, fun, args) ==
    IF isinstance(data, {"dict"})
    THEN LET rs == [i \in 1..Len(data.items) |-> data_map(data.items[i].v, fun, args)]
         IN  [val   |-> Dict([i \in 1..Len(rs) |-> Item(data.items[i].k, rs[i].val)]),
              calls |-> ConcatSeqs([i \in 1..Len(rs) |-> rs[i].calls])]
    ELSE IF isinstance(data, {"list"})
    THEN LET rs == [i \in 1..Len(data.items) |-> data_map(data.items[i], fun, args)]
         IN  [val   |-> List([i \in 1..Len(rs) |-> rs[i].val]),
              calls |-> ConcatSeqs([i \in 1..Len(rs) |-> rs[i].calls])]
    ELSE IF isinstance(data, {"tuple"})
    THEN LET rs == [i \in 1..Len(data.items) |-> data_map(data.items[i], fun, args)]
         IN  [val   |-> Tuple([i \in 1..Len(rs) |-> rs[i].val]),
              calls |-> ConcatSeqs([i \in 1..Len(rs) |-> rs[i].calls])]
    ELSE [val |-> ApplyFun(fun, data, args), calls |-> <<data>>]

----------------------------------------------------------------------------
(* flatten_dict_data *)

\* the default of the argument fun: "{}/{}".format.  A formatter
\* "{}<sep>{}".format is modelled by its separator <sep>.
DefaultFmt == "/"

\* fun(i, j)
Format(fun, i, j) == StrKey(str(i) \o fun \o str(j))

\* dict_gen / list_gen: the (key, value) pairs of a container
GenItems(dat) ==
    IF isinstance(dat, {"dict"}) THEN dat.items
    ELSE [i \in 1..Len(dat.items) |-> Item(IntKey(i - 1), dat.items[i])]

\* the inner loop: for j, tmp_j in gen_2(tmp): ret[fun(i, j)] = tmp_j
RECURSIVE FlattenInner(_, _, _, _, _)
FlattenInner(ret, fun, i, sub, n) ==
    IF n > Len(sub) THEN ret
    ELSE FlattenInner(DictSet(ret, Format(fun, i, sub[n].k), sub[n].v), fun, i, sub, n + 1)

RECURSIVE flatten_dict_data(_, _)
RECURSIVE FlattenOuter(_, _, _, _)
\* the outer loop over gen_1(data), from its n-th pair on
FlattenOuter(ret, fun, ents, n) ==
    IF n > Len(ents) THEN ret
    ELSE LET i   == ents[n].k
             tmp == flatten_dict_data(ents[n].v, DefaultFmt)
         IN  IF isinstance(tmp, {"dict", "list", "tuple"})
             THEN FlattenOuter(FlattenInner(ret, fun, i, GenItems(tmp), 1), fun, ents, n + 1)
             ELSE FlattenOuter(DictSet(ret, i, tmp), fun, ents, n + 1)

flatten_dict_data(data, fun) ==
    IF isinstance(data, {"dict", "list", "tuple"})
    THEN Dict(FlattenOuter(<<>>, fun, GenItems(data), 1))
    ELSE data

----------------------------------------------------------------------------
(* data_index *)

\* a path: a list of keys
Path(keys) == [ty |-> "list", keys |-> keys]

\* data[i] for an int i
GetItemInt(data, n) ==
    IF isinstance(data, {"list", "tuple"})
    THEN IF n >= 0 /\ n < Len(data.items) THEN data.items[n + 1]
         ELSE IF n < 0 /\ -n <= Len(data.items) THEN data.items[Len(data.items) + n + 1]
         ELSE Error("IndexError")
    ELSE IF isinstance(data, {"dict"})
    THEN IF IntKey(n) \in KeySet(data) THEN DictGet(data, IntKey(n)) ELSE Error("KeyError")
    ELSE IF data.rank = 0 THEN Error("IndexError")
    ELSE IF n >= 0 /\ n < Len(data.arr) THEN Leaf(data.rank - 1, data.arr[n + 1])
    ELSE IF n < 0 /\ -n <= Len(data.arr) THEN Leaf(data.rank - 1, data.arr[Len(data.arr) + n + 1])
    ELSE Error("IndexError")

\* idx(data, i)
idx(data, i) ==
    IF i.ty = "int" THEN GetItemInt(data, i.n)
    ELSE IF ~isinstance(data, {"dict"}) THEN Error("AssertionError")
    ELSE IF i \in KeySet(data) THEN DictGet(data, i)
    ELSE LET hit == {n \in 1..Len(data.items) : str(data.items[n].k) = str(i)}
         IN  IF hit # {} THEN data.items[Min(hit)].v
             ELSE Error("ValueError: not found")

RECURSIVE data_index(_, _)
data_index(data, key) ==
    IF key.ty \in {"list", "tuple"}
    THEN IF Len(key.keys) > 1
         THEN LET d == idx(data, key.keys[1])
              IN  IF IsError(d) THEN d ELSE data_index(d, Path(Tail(key.keys)))
         ELSE IF Len(key.keys) = 0 THEN Error("IndexError")
         ELSE idx(data, key.keys[1])
    ELSE idx(data, key)

----------------------------------------------------------------------------
(* The inputs of the model *)

\* leaves: two of batch extent MaxRows with different elements, one shorter
LA == Leaf(2, Arr(MaxRows, MaxCols, 1))

LB == Leaf(2, Arr(MaxRows, MaxCols, 2))

LC == Leaf(2, Arr(MaxRows - 1, MaxCols, 3))

Leaves == {LA, LB, LC}

Ka == StrKey("a")

Kb == StrKey("b")

Kc == StrKey("c")

SeqsUpTo2(C) == {<<>>} \cup {<<x>> : x \in C} \cup {<<x, y>> : x, y \in C}

DictItemsUpTo2(C) ==
    {<<>>} \cup {<<Item(k, x)>> : k \in {Ka, Kb}, x \in C}
           \cup {<<Item(Ka, x), Item(Kb, y)>> : x, y \in C}
           \cup {<<Item(Kb, x), Item(Ka, y)>> : x, y \in C}

\* every dict, list and tuple with at most two children taken from C
Containers(C) ==
    {List(s) : s \in SeqsUpTo2(C)} \cup {Tuple(s) : s \in SeqsUpTo2(C)}
        \cup {Dict(s) : s \in DictItemsUpTo2(C)}

\* the children of the trees of depth 2
Inner == {LA, LC, List(<<>>), Dict(<<Item(Ka, LA)>>), Tuple(<<LA, LB>>), List(<<LA, LC>>)}

\* trees of depth 3 (a leaf below three containers)
DeepTrees ==
    { Dict(<<Item(Ka, Dict(<<Item(Kb, Dict(<<Item(Ka, LA), Item(Kb, LB)>>))>>))>>),
      List(<<List(<<List(<<LA>>), LB>>)>>),
      Dict(<<Item(Ka, List(<<Tuple(<<LA, LB>>)>>)), Item(Kb, LB)>>) }

\* trees whose keys are objects, ints and strings with equal string forms
KeyTrees ==
    { Dict(<<Item(ObjKey("X"), LA), Item(StrKey("Y"), LB)>>),
      Dict(<<Item(StrKey("1"), LA), Item(Kb, LB)>>),
      Dict(<<Item(IntKey(0), LA), Item(StrKey("0"), LB)>>),
      Dict(<<Item(ObjKey("a"), LA), Item(Ka, List(<<LB, LC>>))>>) }

\* the trees data_merge is called with
MergePool ==
    { LA, LB, LC,
      Dict(<<Item(Ka, LA), Item(Kb, LB)>>),
      Dict(<<Item(Kb, LA), Item(Kc, LC)>>),
      List(<<LA, LB>>),
      List(<<LA>>),
      Tuple(<<LA, LB>>),
      Dict(<<Item(Ka, List(<<LA, LB>>)), Item(Kb, Dict(<<Item(Ka, LB)>>))>>),
      Dict(<<Item(Kb, Dict(<<Item(Ka, LA), Item(Kc, LC)>>)), Item(Ka, List(<<LB>>))>>) }

TreePool ==
    Leaves \cup Containers(Leaves) \cup Containers(Inner) \cup DeepTrees
        \cup KeyTrees \cup MergePool

\* every key of the pool, in the two orders a set of keys is iterated in
AllKeys ==
    <<Ka, Kb, Kc, StrKey("0"), StrKey("1"), StrKey("Y"), IntKey(0), ObjKey("X"), ObjKey("a")>>

Reverse(s) == [i \in 1..Len(s) |-> s[Len(s) + 1 - i]]

SetOrders == {AllKeys, Reverse(AllKeys)}

\* axis values: the two supported ones, an unsupported dimension of a leaf,
\* and one that is no dimension of a leaf
SplitAxes == {0, -1, 1, 2}

MergeAxes == {0, 1}

Funs == {<<"identity", <<>>>>, <<"add", <<1>>>>, <<"shape", <<>>>>}

Fmts == {"/", "."}

IndexKeys ==
    {Ka, Kb, StrKey("X"), StrKey("1"), ObjKey("X"), IntKey(0), IntKey(1), IntKey(-1), IntKey(2)}

IndexArgs ==
    IndexKeys \cup {Path(<<>>)} \cup {Path(<<k>>) : k \in IndexKeys}
        \cup {Path(<<k1, k2>>) : k1, k2 \in IndexKeys}

RECURSIVE SeqsUpTo(_, _)
SeqsUpTo(C, n) ==
    IF n = 0 THEN {<<>>}
    ELSE SeqsUpTo(C, n - 1) \cup {Append(s, x) : s \in {t \in SeqsUpTo(C, n - 1) : Len(t) = n - 1}, x \in C}

----------------------------------------------------------------------------
(* The state machine *)

Init ==
    /\ tree \in TreePool
    /\ op = "idle"
    /\ params = None
    /\ gen = None
    /\ genStatus = "none"
    /\ genErr = None
    /\ batches = <<>>
    /\ result = None

\* gen = data_split(tree, batch_size, axis): returns the generator, runs nothing
DataSplit(batch_size, axis) ==
    /\ op = "idle"
    /\ op' = "split"
    /\ params' = [batch_size |-> batch_size, axis |-> axis]
    /\ gen' = NewGen(tree)
    /\ genStatus' = "open"
    /\ UNCHANGED <<tree, genErr, batches, result>>

\* next(gen), as list(gen) does until the generator stops or raises
NextBatch ==
    /\ op = "split"
    /\ genStatus = "open"
    /\ LET r == gen_next(gen, params.batch_size, params.axis)
       IN  /\ gen' = r.g
           /\ genStatus' = IF r.out.st = "yield" THEN "open" ELSE r.out.st
           /\ genErr' = IF r.out.st = "raise" THEN Error(r.out.err) ELSE genErr
           /\ batches' = IF r.out.st = "yield" THEN Append(batches, r.out.v) ELSE batches
    /\ UNCHANGED <<tree, op, params, result>>

\* data_merge(*list(gen), axis=0) once list(gen) has returned
MergeBatches(ord) ==
    /\ op = "split"
    /\ genStatus = "stop"
    /\ op' = "roundtrip"
    /\ result' = data_merge(batches, 0, ord)
    /\ UNCHANGED <<tree, params, gen, genStatus, genErr, batches>>

\* data_merge(tree, *rest, axis=axis)
DataMerge(rest, axis, ord) ==
    /\ op = "idle"
    /\ tree \in MergePool
    /\ op' = "merge"
    /\ params' = [data |-> <<tree>> \o rest, axis |-> axis, ord |-> ord]
    /\ result' = data_merge(<<tree>> \o rest, axis, ord)
    /\ UNCHANGED <<tree, gen, genStatus, genErr, batches>>

\* data_map(tree, fun, args)
DataMap(fun, args) ==
    /\ op = "idle"
    /\ op' = "map"
    /\ params' = [fun |-> fun, args |-> args]
    /\ result' = data_map(tree, fun, args)
    /\ UNCHANGED <<tree, gen, genStatus, genErr, batches>>

\* flatten_dict_data(tree, fun)
FlattenDictData(fun) ==
    /\ op = "idle"
    /\ op' = "flatten"
    /\ params' = [fun |-> fun]
    /\ result' = flatten_dict_data(tree, fun)
    /\ UNCHANGED <<tree, gen, genStatus, genErr, batches>>

\* data_index(tree, key)
DataIndex(key) ==
    /\ op = "idle"
    /\ op' = "index"
    /\ params' = [key |-> key]
    /\ result' = data_index(tree, key)
    /\ UNCHANGED <<tree, gen, genStatus, genErr, batches>>

Next ==
    \/ \E b \in 1..MaxBatch, axis \in SplitAxes : DataSplit(b, axis)
    \/ NextBatch
    \/ \E ord \in SetOrders : MergeBatches(ord)
    \/ \E rest \in SeqsUpTo(MergePool, MaxMerge - 1), axis \in MergeAxes, ord \in SetOrders :
          DataMerge(rest, axis, ord)
    \/ \E f \in Funs : DataMap(f[1], f[2])
    \/ \E fun \in Fmts : FlattenDictData(fun)
    \/ \E key \in IndexArgs : DataIndex(key)

Spec == Init /\ [][Next]_vars

----------------------------------------------------------------------------
(* Vocabulary of the properties *)

\* t == u in Python: dicts compare as mappings (order of keys ignored), lists
\* and tuples element by element, arrays by their elements
RECURSIVE TreeEq(_, _)
TreeEq(t, u) ==
    /\ t.kind = u.kind
    /\ IF t.kind = "dict"
       THEN /\ KeySet(t) = KeySet(u)
            /\ Len(t.items) = Len(u.items)
            /\ \A k \in KeySet(t) : TreeEq(DictGet(t, k), DictGet(u, k))
       ELSE IF t.kind \in {"list", "tuple"}
       THEN /\ Len(t.items) = Len(u.items)
            /\ \A j \in 1..Len(t.items) : TreeEq(t.items[j], u.items[j])
       ELSE t = u

\* the children of a container, in order
Children(t) ==
    IF t.kind = "dict" THEN [j \in 1..Len(t.items) |-> t.items[j].v] ELSE t.items

\* the leaves of a tree, depth first, left to right
RECURSIVE LeafList(_)
LeafList(t) ==
    IF IsContainer(t)
    THEN ConcatSeqs([j \in 1..Len(Children(t)) |-> LeafList(Children(t)[j])])
    ELSE <<t>>

\* some dict, list or tuple of the tree has no element
RECURSIVE HasEmptyContainer(_)
HasEmptyContainer(t) ==
    /\ IsContainer(t)
    /\ \/ Len(Children(t)) = 0
       \/ \E j \in 1..Len(Children(t)) : HasEmptyContainer(Children(t)[j])

\* the tree has a leaf and all its leaves have n rows
UniformExtent(t, n) ==
    /\ LeafList(t) # <<>>
    /\ \A j \in 1..Len(LeafList(t)) : Len(LeafList(t)[j].arr) = n

\* number of slices of size b of a leaf along axis: ceil(extent / b)
NumSlices(leaf, b, axis) == (ShapeAt(leaf, axis) + b - 1) \div b

\* elements k*b .. min((k+1)*b, extent)-1 of a leaf along axis 0 or -1
KthSlice(leaf, k, b, axis) ==
    LET n  == ShapeAt(leaf, axis)
        hi == IF (k + 1) * b < n THEN (k + 1) * b ELSE n
    IN  IF axis = 0
        THEN Leaf(2, [r \in 1..(hi - k * b) |-> leaf.arr[k * b + r]])
        ELSE Leaf(2, [r \in 1..Len(leaf.arr) |->
                         [c \in 1..(hi - k * b) |-> leaf.arr[r][k * b + c]]])

\* t with every leaf replaced by its k-th slice
RECURSIVE KthSubTree(_, _, _, _)
KthSubTree(t, k, b, axis) ==
    IF t.kind = "dict"
    THEN Dict([j \in 1..Len(t.items) |->
                  Item(t.items[j].k, KthSubTree(t.items[j].v, k, b, axis))])
    ELSE IF t.kind = "list"
    THEN List([j \in 1..Len(t.items) |-> KthSubTree(t.items[j], k, b, axis)])
    ELSE IF t.kind = "tuple"
    THEN Tuple([j \in 1..Len(t.items) |-> KthSubTree(t.items[j], k, b, axis)])
    ELSE KthSlice(t, k, b, axis)

\* the key paths of the leaves of a tree (a list index is an int key)
RECURSIVE LeafPaths(_)
LeafPaths(t) ==
    IF IsContainer(t)
    THEN UNION {{<<GenItems(t)[j].k>> \o q : q \in LeafPaths(GenItems(t)[j].v)} :
                    j \in 1..Len(GenItems(t))}
    ELSE {<<>>}

\* direct nested indexing t[p1][p2]...
RECURSIVE At(_, _)
At(t, p) ==
    IF Len(p) = 0 THEN t
    ELSE IF t.kind = "dict" THEN At(DictGet(t, Head(p)), Tail(p))
    ELSE At(t.items[Head(p).n + 1], Tail(p))

\* the AssertionError "not all type same" is the code's StructureMismatch
IsStructureMismatch(v) == IsError(v) /\ v.err = "AssertionError: not all type same"

----------------------------------------------------------------------------
(* Claims on the splitter *)

\* list(data_split(tree, b, 0)) has returned and its batches were merged
RoundTripDone(n) ==
    /\ op = "roundtrip"
    /\ params.axis = 0
    /\ UniformExtent(tree, n)
    /\ params.batch_size <= n

\* C1, as stated: for every tree whose leaves all have batch extent N and
\* every 1 <= b <= N, data_merge(*list(data_split(t, b)), axis=0) is a tree
\* equal to t.
C1_RoundTripAnyTree ==
    \A n \in 1..(MaxRows + 1) : RoundTripDone(n) => TreeEq(result, tree)

\* C1, amended: the same for every tree none of whose dicts, lists and tuples
\* is empty (an empty container makes the split yield no sub-tree at all).
C1_RoundTrip ==
    \A n \in 1..(MaxRows + 1) :
        RoundTripDone(n) /\ ~HasEmptyContainer(tree) => TreeEq(result, tree)

\* C1 witness: a nested tree split with a batch size that does not divide the
\* extent (two batches, the last one short) and merged back to the tree.
C1_Witness ==
    /\ RoundTripDone(MaxRows)
    /\ tree = Dict(<<Item(Kb, Tuple(<<LA, LB>>)), Item(Ka, LA)>>)
    /\ params.batch_size = MaxRows - 1
    /\ Len(batches) = 2
    /\ TreeEq(result, tree)

\* the splitter was run on a tree with a leaf, along a supported axis
SplitRun ==
    /\ op \in {"split", "roundtrip"}
    /\ params.axis \in {0, -1}
    /\ LeafList(tree) # <<>>

\* the batches pulled so far are the successive slices of every leaf, and a
\* generator that has stopped has yielded as many as the leaf with the fewest
Lockstep ==
    /\ \A k \in 1..Len(batches) :
           batches[k] = KthSubTree(tree, k - 1, params.batch_size, params.axis)
    /\ genStatus # "raise"
    /\ genStatus = "stop" =>
           Len(batches) = Min({NumSlices(LeafList(tree)[j], params.batch_size, params.axis) :
                                   j \in 1..Len(LeafList(tree))})

\* C7, as stated: the k-th sub-tree of data_split(t, b) holds the k-th slice
\* of every leaf under the keys and kinds of t, and the number of sub-trees
\* is the minimum over the leaves of their number of slices.
C7_LockstepAnyTree == SplitRun => Lockstep

\* C7, amended: the same for every tree none of whose dicts, lists and tuples
\* is empty.
C7_Lockstep == SplitRun /\ ~HasEmptyContainer(tree) => Lockstep

\* C7 witness: leaves of different extents; the generator stopped after the
\* two slices of the shorter leaf although the longer one has three.
C7_Witness ==
    /\ SplitRun
    /\ tree = Dict(<<Item(Ka, LA), Item(Kb, List(<<LA, LC>>))>>)
    /\ params.batch_size = 1
    /\ params.axis = 0
    /\ genStatus = "stop"
    /\ Len(batches) = MaxRows - 1
    /\ NumSlices(LA, 1, 0) = MaxRows

\* the generator of data_split(tree, b, axis) has been iterated
Iterated == op = "split" /\ genStatus # "open"

----------------------------------------------------------------------------
(* Claims on data_merge *)

\* the keys every input has
CommonKeys(data) ==
    {k \in UNION {KeySet(data[n]) : n \in 1..Len(data)} :
        \A n \in 1..Len(data) : k \in KeySet(data[n])}

AllOfKind(data, kind) == \A n \in 1..Len(data) : data[n].kind = kind

\* at every mapping node of a successful merge, the keys of the result are
\* the keys common to the inputs
RECURSIVE NestedKeysOK(_, _)
NestedKeysOK(data, res) ==
    IF AllOfKind(data, "dict") /\ res.kind = "dict"
    THEN /\ KeySet(res) = CommonKeys(data)
         /\ Len(res.items) = Cardinality(CommonKeys(data))
         /\ \A k \in CommonKeys(data) :
                NestedKeysOK([n \in 1..Len(data) |-> DictGet(data[n], k)], DictGet(res, k))
    ELSE IF (AllOfKind(data, "list") \/ AllOfKind(data, "tuple")) /\ res.kind = data[1].kind
    THEN \A j \in 1..Len(res.items) :
             NestedKeysOK([n \in 1..Len(data) |-> data[n].items[j]], res.items[j])
    ELSE TRUE

\* the merge of the children under key k of the inputs of the call
ChildMerge(k) ==
    data_merge([n \in 1..Len(params.data) |-> DictGet(params.data[n], k)], 0, params.ord)

\* C2: at a mapping node of a merge of N >= 1 trees the keys of the result are
\* exactly the keys common to all inputs, keys missing from an input raise
\* nothing, and (for the default axis 0) the value under each key is the merge
\* of the N children under it: the merge fails only if one of these fails.
C2_KeyIntersection ==
    op = "merge" =>
        /\ ~IsError(result) => NestedKeysOK(params.data, result)
        /\ AllOfKind(params.data, "dict") /\ params.axis = 0 =>
               /\ IsError(result) <=> \E k \in CommonKeys(params.data) : IsError(ChildMerge(k))
               /\ ~IsError(result) =>
                      \A k \in CommonKeys(params.data) : DictGet(result, k) = ChildMerge(k)

\* C2 witness: {a: x, b: y} merged with {b: y2, c: z} is {b: concat([y, y2])}.
C2_Witness ==
    /\ op = "merge"
    /\ params.axis = 0
    /\ params.data = << Dict(<<Item(Ka, LA), Item(Kb, LB)>>),
                        Dict(<<Item(Kb, LA), Item(Kc, LC)>>) >>
    /\ result = Dict(<<Item(Kb, Leaf(2, LB.arr \o LA.arr))>>)

\* some shared path of the inputs holds lists (or tuples) of different lengths
RECURSIVE HasLengthMismatch(_)
HasLengthMismatch(data) ==
    IF AllOfKind(data, "list") \/ AllOfKind(data, "tuple")
    THEN \/ \E n \in 1..Len(data) : Len(data[n].items) # Len(data[1].items)
         \/ \E j \in 1..Min({Len(data[n].items) : n \in 1..Len(data)}) :
                HasLengthMismatch([n \in 1..Len(data) |-> data[n].items[j]])
    ELSE IF AllOfKind(data, "dict")
    THEN \E k \in CommonKeys(data) :
             HasLengthMismatch([n \in 1..Len(data) |-> DictGet(data[n], k)])
    ELSE FALSE

\* C3: a merge whose inputs hold, at a shared path, sequences or tuples of
\* different lengths fails with StructureMismatch and returns no result; with
\* equal lengths the result has that length and a tuple stays a tuple.
C3_LengthCheck ==
    op = "merge" =>
        /\ HasLengthMismatch(params.data) => IsStructureMismatch(result)
        /\ (AllOfKind(params.data, "list") \/ AllOfKind(params.data, "tuple"))
               /\ ~HasLengthMismatch(params.data) /\ ~IsError(result) =>
                   /\ result.kind = params.data[1].kind
                   /\ Len(result.items) = Len(params.data[1].items)

\* C4: a merge two of whose inputs are of different kinds (dict, list, tuple,
\* leaf), in any argument order, fails with StructureMismatch; the leaf
\* concatenation is not reached.
C4_KindCheck ==
    op = "merge" /\ (\E n \in 1..Len(params.data) : params.data[n].kind # params.data[1].kind)
        => IsStructureMismatch(result)

\* C5: every leaf of the result of data_merge(*trees, axis=a), at any depth,
\* is the concatenation along axis a of the inputs' leaves at its path.
C5_AxisEverywhere ==
    op = "merge" /\ ~IsError(result) =>
        \A p \in LeafPaths(result) :
            At(result, p) =
                tf_concat([n \in 1..Len(params.data) |-> At(params.data[n], p)], params.axis)

----------------------------------------------------------------------------
(* Claim on data_map *)

\* u has the kinds, keys (in order) and lengths of t, and fun(leaf) at each leaf
RECURSIVE Mapped(_, _, _, _)
Mapped(t, u, fun, args) ==
    IF t.kind = "dict"
    THEN /\ u.kind = "dict"
         /\ Keys(u) = Keys(t)
         /\ \A j \in 1..Len(t.items) : Mapped(t.items[j].v, u.items[j].v, fun, args)
    ELSE IF t.kind \in {"list", "tuple"}
    THEN /\ u.kind = t.kind
         /\ Len(u.items) = Len(t.items)
         /\ \A j \in 1..Len(t.items) : Mapped(t.items[j], u.items[j], fun, args)
    ELSE u = ApplyFun(fun, t, args)

\* C6: data_map(t, fn) has the container kinds, keys, key order and lengths of
\* t with fn(leaf) at every leaf; fn is called exactly once per leaf and on
\* leaves only; data_map(t, identity) equals t.
C6_MapStructure ==
    op = "map" =>
        /\ Mapped(tree, result.val, params.fun, params.args)
        /\ result.calls = LeafList(tree)
        /\ params.fun = "identity" => result.val = tree

\* C6 witness: a dict holding a tuple and a leaf, mapped with x + 1: three
\* calls, a result of the same structure whose leaves differ from the input's.
C6_Witness ==
    /\ op = "map"
    /\ params.fun = "add"
    /\ tree = Dict(<<Item(Kb, Tuple(<<LA, LB>>)), Item(Ka, LA)>>)
    /\ Len(result.calls) = 3
    /\ result.val.items[1].v.kind = "tuple"
    /\ result.val.items[1].v.items[2].arr[1][1] = LB.arr[1][1] + 1

----------------------------------------------------------------------------
(* Claim on flatten_dict_data *)

\* the flat items of a container when fun combines the keys at every level
RECURSIVE FlatItems(_, _)
FlatItems(t, fun) ==
    ConcatSeqs([n \in 1..Len(GenItems(t)) |->
        LET i == GenItems(t)[n].k
            v == GenItems(t)[n].v
        IN  IF IsContainer(v)
            THEN [m \in 1..Len(FlatItems(v, fun)) |->
                     Item(Format(fun, i, FlatItems(v, fun)[m].k), FlatItems(v, fun)[m].v)]
            ELSE <<Item(i, v)>>])

\* C9: flatten_dict_data(t, fmt) of a container is a single-level mapping with
\* one entry per leaf; a leaf under the root keeps its key, a deeper leaf gets
\* its path keys combined with fmt at every level.
C9_FlattenFormat ==
    op = "flatten" /\ IsContainer(tree) =>
        /\ result.kind = "dict"
        /\ \A n \in 1..Len(result.items) : ~IsContainer(result.items[n].v)
        /\ Len(result.items) = Len(LeafList(tree))
        /\ result = Dict(FlatItems(tree, params.fun))

----------------------------------------------------------------------------
(* Claim on data_index *)

\* resolution of one key as the claim states it
RefIdx(node, i) ==
    IF node.kind \in {"list", "tuple"} /\ i.ty = "int"
    THEN IF i.n >= 0 /\ i.n < Len(node.items) THEN node.items[i.n + 1]
         ELSE Error("IndexOutOfRange")
    ELSE IF node.kind # "dict" THEN Error("NotMapping")
    ELSE IF i \in KeySet(node) THEN DictGet(node, i)
    ELSE IF \E n \in 1..Len(node.items) : str(node.items[n].k) = str(i)
    THEN node.items[Min({n \in 1..Len(node.items) : str(node.items[n].k) = str(i)})].v
    ELSE Error("KeyNotFound")

RECURSIVE RefIndex(_, _)
RefIndex(node, keys) ==
    IF Len(keys) = 0 \/ IsError(node) THEN node
    ELSE RefIndex(RefIdx(node, Head(keys)), Tail(keys))

\* no key of the path is applied to a leaf
RECURSIVE StaysInTree(_, _)
StaysInTree(node, keys) ==
    \/ Len(keys) = 0
    \/ IsError(node)
    \/ IsContainer(node) /\ StaysInTree(RefIdx(node, Head(keys)), Tail(keys))

\* the spec's name of an exception of the code
ErrorClass(v) ==
    IF v.err = "IndexError" THEN Error("IndexOutOfRange")
    ELSE IF v.err \in {"KeyError", "ValueError: not found"} THEN Error("KeyNotFound")
    ELSE IF v.err = "AssertionError" THEN Error("NotMapping")
    ELSE v

KeysOf(key) == IF key.ty \in {"list", "tuple"} THEN key.keys ELSE <<key>>

\* C10: data_index(tree, path) resolves the keys one after the other, each
\* positionally on a sequence or tuple for an integer key and otherwise on a
\* mapping by exact match, then by equal string form, else KeyNotFound.  Stated
\* for paths of non-negative integers that stay inside the tree.
C10_IndexResolution ==
    op = "index" /\ Len(KeysOf(params.key)) >= 1
                 /\ (\A n \in 1..Len(KeysOf(params.key)) :
                        KeysOf(params.key)[n].ty = "int" => KeysOf(params.key)[n].n >= 0)
                 /\ StaysInTree(tree, KeysOf(params.key))
        => (IF IsError(result) THEN ErrorClass(result) ELSE result)
               = RefIndex(tree, KeysOf(params.key))

====
